---- MODULE Spec2Model ----
(***************************************************************************)
(* A model of tools/pyUANamespace: the NodeSet registry (nodeset.py) and   *)
(* the Node / Reference classes it fills (nodes.py).                       *)
(*                                                                         *)
(* Strings are modelled by what the code does with them.  A string that    *)
(* follows the identifier grammar "ns=<int>;i=<int>" (the "ns=" part may   *)
(* be left out) is the record TId(hasNs, ns, i); any other string is       *)
(* TName(s).  NodeId objects, strings and None are different values, as in *)
(* Python, and str() turns each into a string.                             *)
(*                                                                         *)
(* The loop of addNodeSet over the children of the document is modelled    *)
(* one createNode call per step: pc records that an ingestion is running,  *)
(* and no other operation is enabled while it runs (the program is         *)
(* single-threaded).  The children of the document are chosen when the     *)
(* loop reaches them.                                                      *)
(***************************************************************************)
EXTENDS Integers, Sequences, FiniteSets, TLC

VARIABLES
  nodes,                \* NodeSet.nodes: list of Node objects
  nodeids,              \* NodeSet.nodeids: dict, str(node.id) -> Node
  aliases,              \* NodeSet.aliases: dict, alias string -> string
  namespaceIdentifiers, \* NodeSet.namespaceIdentifiers: list of URIs
  pc,                   \* "idle", or "ingest" inside the loop of addNodeSet
  orig_namespaces,      \* addNodeSet's local orig_namespaces
  nsMapping,            \* addNodeSet's local nsMapping
  raised,               \* the exception the last call ended with, or "none"
  logged,               \* the logger.error messages of the last call
  passes,               \* passes of the while loop in the last reorder call
  last                  \* the name of the last call

vars == <<nodes, nodeids, aliases, namespaceIdentifiers, pc, orig_namespaces,
          nsMapping, raised, logged, passes, last>>

-----------------------------------------------------------------------------
(* Bounds of the model. *)

MaxNodes == 2          \* Node objects the NodeSet holds (Spec)
MaxGraphNodes == 4     \* Node objects the NodeSet holds (SpecGraph)
MaxEmitted == 1        \* nodes in printedExternally
MaxUris == 2           \* <Uri> children of one <NamespaceUris>
MaxAliasEntries == 1   \* <Alias> children of one <Aliases>

-----------------------------------------------------------------------------
(* Values: strings, NodeId objects, None. *)

StdUri == "http://opcfoundation.org/UA/"

None == [t |-> "None"]
NoAttr == [t |-> "NoAttr"]      \* an attribute the element does not carry

TId(hasNs, ns, i) == [t |-> "str", k |-> "id", hasNs |-> hasNs, ns |-> ns, i |-> i]
TName(s) == [t |-> "str", k |-> "name", s |-> s]

MkNodeId(ns, i) == [t |-> "NodeId", ns |-> ns, i |-> i]

\* NodeId(idstring) succeeds on a string of the identifier grammar.
NodeIdParses(text) == text.t = "str" /\ text.k = "id"

\* NodeId(idstring): "ns=<int>;i=<int>", an omitted "ns=" means namespace 0.
NodeIdOf(text) ==
  IF NodeIdParses(text)
  THEN MkNodeId(IF text.hasNs THEN text.ns ELSE 0, text.i)
  ELSE None

\* NodeId(): the zero-value default identifier.
DefaultNodeId == MkNodeId(0, 0)

\* str(v) of a NodeId (its canonical form), of a string, of None.
Str(v) ==
  CASE v.t = "NodeId" -> TId(TRUE, v.ns, v.i)
    [] v.t = "str" -> v
    [] OTHER -> TName("None")

\* "'=' in av" of parseXMLReferences.
ContainsEq(text) == text.k = "id"

\* '"false" in av.lower()' of parseXMLReferences, on the values used here.
ContainsFalse(av) == av \in {TName("false"), TName("False"), TName("FALSE")}

\* key in d, for a dict whose keys are strings: identifiers compare and hash
\* by their canonical string form.
InDict(v, d) == Str(v) \in DOMAIN d

\* d[key], the same way.
DictGet(d, v) == d[Str(v)]

Put(d, k, v) == [x \in DOMAIN d \cup {k} |-> IF x = k THEN v ELSE d[x]]

EmptyDict == [x \in {} |-> None]

Range(s) == {s[j] : j \in DOMAIN s}

\* list.index(x): the first position of x (counted from 0).
IndexOf(s, x) == (CHOOSE j \in DOMAIN s : s[j] = x /\ \A m \in 1..(j - 1) : s[m] # x) - 1

-----------------------------------------------------------------------------
(* Namespaces: nodeset.py 50-62, 204-236. *)

RECURSIVE AppendAll(_, _)
\* The loop without its test "if not ns in table".
AppendAll(table, xs) ==
  IF xs = <<>> THEN table ELSE AppendAll(Append(table, Head(xs)), Tail(xs))

RECURSIVE AppendMissing(_, _)
\* "for ns in xs: if not ns in table: table.append(ns)"
AppendMissing(table, xs) ==
  IF xs = <<>> THEN table
  ELSE AppendMissing(IF Head(xs) \in Range(table) THEN table
                     ELSE Append(table, Head(xs)), Tail(xs))

\* XmlNamespaces: the standard namespace first, then the document's URIs,
\* one already in the list skipped.
XmlNamespaces(uris) == AppendMissing(<<StdUri>>, uris)

\* A mapping that keeps the document's own numbering.
createNamespaceMappingLocal(table, orig) ==
  [index \in 0..(Len(orig) - 1) |-> index]

\* createNamespaceMapping: local index -> index in the combined table.
createNamespaceMapping(table, orig) ==
  [index \in 0..(Len(orig) - 1) |-> IndexOf(table, orig[index + 1])]

-----------------------------------------------------------------------------
(* Reference and Node: nodes.py 43-49, 80-159. *)

\* Reference.__init__(self, source, referenceType, target, isForward)
Reference(source, referenceType, target, isForward) ==
  [source |-> source, referenceType |-> referenceType, target |-> target,
   isForward |-> isForward]

\* One <Reference> child: the attribute ReferenceType, the attribute
\* IsForward and the text content.
\* parseXMLReferences, the body of its loop for one child.
parseXMLReference(selfId, ref) ==
  LET target == NodeIdOf(ref.text)
      reftype == IF ref.refType = NoAttr THEN None
                 ELSE IF ContainsEq(ref.refType) THEN NodeIdOf(ref.refType)
                 ELSE ref.refType
      forward == IF ref.isForward = NoAttr THEN TRUE
                 ELSE ~ContainsFalse(ref.isForward)
  IN  Reference(selfId, target, reftype, forward)

\* NodeId(...) raises inside parseXMLReferences.
parseXMLReferencesRaises(refs) ==
  \E j \in DOMAIN refs :
     \/ ~NodeIdParses(refs[j].text)
     \/ refs[j].refType # NoAttr /\ ContainsEq(refs[j].refType)
          /\ ~NodeIdParses(refs[j].refType)

\* parseXMLReferences: the references in document order; self.references
\* takes the forward ones, self.inverseReferences the others.  Reference
\* defines no __eq__, so the two Sets hold every parsed object; they are
\* modelled as sequences.
parseXMLReferences(selfId, refs, forward) ==
  SelectSeq([j \in DOMAIN refs |-> parseXMLReference(selfId, refs[j])],
            LAMBDA r : r.isForward = forward)

NodeClassOf(ndtype) ==
  CASE ndtype = "variable" -> "VariableNode"
    [] ndtype = "object" -> "ObjectNode"
    [] ndtype = "method" -> "MethodNode"
    [] ndtype = "objecttype" -> "ObjectTypeNode"
    [] ndtype = "variabletype" -> "VariableTypeNode"
    [] ndtype = "methodtype" -> "MethodNode"
    [] ndtype = "datatype" -> "DataTypeNode"
    [] ndtype = "referencetype" -> "ReferenceTypeNode"
    [] OTHER -> "none"

\* "ndtype = xmlelement.tagName.lower(); if ndtype[:2] == 'ua': ..." on the
\* tag names used here.
NdType(tagName) ==
  CASE tagName = "Aliases" -> "aliases"
    [] tagName = "UAAliases" -> "aliases"
    [] tagName = "UAObject" -> "object"
    [] tagName = "UAVariable" -> "variable"
    [] tagName = "UAMethod" -> "method"
    [] tagName = "UAObjectType" -> "objecttype"
    [] tagName = "UAVariableType" -> "variabletype"
    [] tagName = "UADataType" -> "datatype"
    [] tagName = "UAReferenceType" -> "referencetype"
    [] tagName = "UAView" -> "view"
    [] OTHER -> "other"

\* Node.parseXML: the id from the NodeId attribute (Node.__init__ leaves
\* NodeId() when there is none), the browse name, the references.
parseXMLRaises(elem) ==
  \/ elem.idAttr # NoAttr /\ ~NodeIdParses(elem.idAttr)
  \/ parseXMLReferencesRaises(elem.refs)

parseXML(elem, oid) ==
  LET id == IF elem.idAttr = NoAttr THEN DefaultNodeId ELSE NodeIdOf(elem.idAttr)
  IN  [oid |-> oid,
       nodeClass |-> NodeClassOf(NdType(elem.tagName)),
       id |-> id,
       browseName |-> elem.browseName,
       references |-> parseXMLReferences(id, elem.refs, TRUE),
       inverseReferences |-> parseXMLReferences(id, elem.refs, FALSE)]

-----------------------------------------------------------------------------
(* Aliases: nodeset.py 64-104. *)

RECURSIVE buildAliasEntriesLastWins(_, _, _)
\* The loop with a later definition replacing the bound value.
buildAliasEntriesLastWins(al, log, entries) ==
  IF entries = <<>> THEN [aliases |-> al, logged |-> log]
  ELSE LET e == Head(entries)
       IN  buildAliasEntriesLastWins(
             Put(al, e.alias, e.value),
             IF e.alias \in DOMAIN al /\ al[e.alias] # e.value
             THEN log \cup {"Alias definitions differ"} ELSE log,
             Tail(entries))

RECURSIVE buildAliasEntries(_, _, _)
\* The loop of buildAliasList over the <Alias> children.
buildAliasEntries(al, log, entries) ==
  IF entries = <<>> THEN [aliases |-> al, logged |-> log]
  ELSE LET e == Head(entries)
       IN  IF e.alias \notin DOMAIN al
           THEN buildAliasEntries(Put(al, e.alias, e.value), log, Tail(entries))
           ELSE IF al[e.alias] # e.value
           THEN buildAliasEntries(al, log \cup {"Alias definitions differ"},
                                  Tail(entries))
           ELSE buildAliasEntries(al, log, Tail(entries))

buildAliasList(al, elem) ==
  IF elem.tagName # "Aliases"
  THEN [aliases |-> al, logged |-> {"XMLElement passed is not an Aliaslist"}]
  ELSE buildAliasEntries(al, {}, elem.entries)

\* "if str(x) in self.aliases: x = NodeId(self.aliases[x])"
replaceAlias(al, v) == IF InDict(v, al) THEN NodeIdOf(DictGet(al, v)) ELSE v

replaceAliasRaises(al, v) == InDict(v, al) /\ ~NodeIdParses(DictGet(al, v))

replaceAliasesRef(al, ref) ==
  Reference(replaceAlias(al, ref.source), replaceAlias(al, ref.referenceType),
            replaceAlias(al, ref.target), ref.isForward)

replaceAliasesRaises(al, node) ==
  \/ replaceAliasRaises(al, node.id)
  \/ \E refs \in {node.references, node.inverseReferences} :
       \E j \in DOMAIN refs :
          \/ replaceAliasRaises(al, refs[j].source)
          \/ replaceAliasRaises(al, refs[j].target)
          \/ replaceAliasRaises(al, refs[j].referenceType)

replaceAliases(al, node) ==
  [node EXCEPT
     !.id = replaceAlias(al, node.id),
     !.references = [j \in DOMAIN node.references |->
                       replaceAliasesRef(al, node.references[j])],
     !.inverseReferences = [j \in DOMAIN node.inverseReferences |->
                              replaceAliasesRef(al, node.inverseReferences[j])]]

-----------------------------------------------------------------------------
(* NodeSet: nodeset.py 45-54, 109-201, 238-253. *)

Init ==
  /\ nodes = <<>>
  /\ nodeids = EmptyDict
  /\ aliases = EmptyDict
  /\ namespaceIdentifiers = <<StdUri>>
  /\ pc = "idle"
  /\ orig_namespaces = <<>>
  /\ nsMapping = EmptyDict
  /\ raised = "none"
  /\ logged = {}
  /\ passes = 0
  /\ last = "__init__"

\* addNamespace(nsURL)
addNamespace(table, nsURL) ==
  IF nsURL \notin Range(table) THEN Append(table, nsURL) ELSE table

AddNamespace(nsURL) ==
  /\ pc = "idle"
  /\ namespaceIdentifiers' = addNamespace(namespaceIdentifiers, nsURL)
  /\ raised' = "none"
  /\ logged' = {}
  /\ passes' = passes
  /\ last' = "addNamespace"
  /\ UNCHANGED <<nodes, nodeids, aliases, pc, orig_namespaces, nsMapping>>

\* addNodeSet up to its loop: the document has `roots` UANodeSet elements and
\* lists `uris` in its NamespaceUris.  With no or several UANodeSet elements
\* the arguments of "raise Exception(self, self.originXML + ...)" are
\* evaluated first, and NodeSet has no attribute originXML.
AddNodeSet(roots, uris) ==
  /\ pc = "idle"
  /\ logged' = {}
  /\ passes' = passes
  /\ last' = "addNodeSet"
  /\ IF roots # 1
     THEN /\ raised' = "AttributeError"
          /\ UNCHANGED <<nodes, nodeids, aliases, namespaceIdentifiers, pc,
                         orig_namespaces, nsMapping>>
     ELSE LET orig == XmlNamespaces(uris)
              table == AppendMissing(namespaceIdentifiers, orig)
          IN  /\ namespaceIdentifiers' = table
              /\ orig_namespaces' = orig
              /\ nsMapping' = createNamespaceMapping(table, orig)
              /\ pc' = "ingest"
              /\ raised' = "none"
              /\ UNCHANGED <<nodes, nodeids, aliases>>

\* "if node.id == None": NodeId compares by canonical string.
IdIsNone(id) == Str(id) = Str(None)

\* "if node.id in self.nodeids": asked of the identifier as parsed, before
\* replaceAliases and before the namespace index is exchanged.
IsDuplicate(index, node) == InDict(node.id, index)

\* "node.id.ns = nsMapping[node.id.ns]".  A reference's source is the object
\* node.id of parseXML unless replaceAliases has replaced it, and it is
\* replaced exactly when node.id is: the two have the same str().
exchangeNamespace(al, mapping, parsed, node) ==
  LET id == MkNodeId(mapping[node.id.ns], node.id.i)
      shared == ~InDict(parsed.id, al)
      fix(refs) == [j \in DOMAIN refs |->
                      IF shared THEN [refs[j] EXCEPT !.source = id] ELSE refs[j]]
  IN  [node EXCEPT !.id = id,
                   !.references = fix(node.references),
                   !.inverseReferences = fix(node.inverseReferences)]

\* createNode for an element of a recognized node type: the exception it
\* raises ("none" when it registers the node) and the node it registers.
createNodeRaises(elem, index, al, mapping) ==
  LET parsed == parseXML(elem, 0)
  IN  IF parseXMLRaises(elem) THEN "no valid nodeid"
      ELSE IF IdIsNone(parsed.id) THEN "XMLElement has no id"
      ELSE IF IsDuplicate(index, parsed) THEN "duplicate ID"
      ELSE IF replaceAliasesRaises(al, parsed) THEN "no valid nodeid"
      ELSE IF replaceAliases(al, parsed).id.ns \notin DOMAIN mapping THEN "KeyError"
      ELSE "none"

createdNode(elem, al, mapping, oid) ==
  LET parsed == parseXML(elem, oid)
  IN  exchangeNamespace(al, mapping, parsed, replaceAliases(al, parsed))

\* The identity of a new Node object: it differs from every object the
\* NodeSet still holds (in nodes or in nodeids) that has the same fields.
Held == Range(nodes) \cup {nodeids[k] : k \in DOMAIN nodeids}

NewObject(node) ==
  LET held == Held
      used == {n.oid : n \in {h \in held : [h EXCEPT !.oid = 0] = node}}
  IN  [node EXCEPT !.oid = CHOOSE k \in 1..(Cardinality(used) + 1) :
                             k \notin used /\ \A m \in 1..(k - 1) : m \in used]

\* createNode returns at once: not a DOM element, or a tag that is neither
\* "aliases" nor a recognized node type.
IsSkipped(elem) ==
  \/ elem.tagName = "#text"
  \/ (NdType(elem.tagName) # "aliases" /\ NodeClassOf(NdType(elem.tagName)) = "none")

\* One pass of the loop "for nd in nodeset.childNodes: self.createNode(nd,
\* nsMapping)"; an exception ends addNodeSet.
CreateNode(elem, maxNodes) ==
  /\ pc = "ingest"
  /\ passes' = passes
  /\ last' = "createNode"
  /\ IF IsSkipped(elem)
     THEN /\ raised' = "none"
          /\ logged' = {}
          /\ UNCHANGED <<nodes, nodeids, aliases, namespaceIdentifiers, pc,
                         orig_namespaces, nsMapping>>
     ELSE IF NdType(elem.tagName) = "aliases"
     THEN LET r == buildAliasList(aliases, elem)
          IN  /\ aliases' = r.aliases
              /\ logged' = r.logged
              /\ raised' = "none"
              /\ UNCHANGED <<nodes, nodeids, namespaceIdentifiers, pc,
                             orig_namespaces, nsMapping>>
     ELSE LET exc == createNodeRaises(elem, nodeids, aliases, nsMapping)
          IN  /\ raised' = exc
              /\ logged' = {}
              /\ IF exc # "none"
                 THEN /\ pc' = "idle"
                      /\ orig_namespaces' = <<>>
                      /\ nsMapping' = EmptyDict
                      /\ UNCHANGED <<nodes, nodeids, aliases,
                                     namespaceIdentifiers>>
                 ELSE LET node == NewObject(createdNode(elem, aliases, nsMapping, 0))
                      IN  /\ Cardinality(Held) < maxNodes
                          /\ nodes' = Append(nodes, node)
                          /\ nodeids' = Put(nodeids, Str(node.id), node)
                          /\ UNCHANGED <<aliases, namespaceIdentifiers, pc,
                                         orig_namespaces, nsMapping>>

\* The loop of addNodeSet has passed the last child.
FinishAddNodeSet ==
  /\ pc = "ingest"
  /\ pc' = "idle"
  /\ orig_namespaces' = <<>>
  /\ nsMapping' = EmptyDict
  /\ raised' = "none"
  /\ logged' = {}
  /\ passes' = passes
  /\ last' = "addNodeSet"
  /\ UNCHANGED <<nodes, nodeids, aliases, namespaceIdentifiers>>

\* getNodeByIDString: the first node of s with that str(id), or None.
getNodeByIDString(s, idstring) ==
  LET hits == {j \in DOMAIN s : idstring = Str(s[j].id)}
  IN  IF hits = {} THEN None ELSE s[CHOOSE j \in hits : \A m \in hits : j <= m]

\* getNodeByBrowseName: the first node of s with that browse name, or None.
getNodeByBrowseName(s, idstring) ==
  LET hits == {j \in DOMAIN s : idstring = s[j].browseName}
  IN  IF hits = {} THEN None ELSE s[CHOOSE j \in hits : \A m \in hits : j <= m]

\* list.remove(x): without the first element that is x.
ListRemove(s, x) ==
  LET j == CHOOSE j \in DOMAIN s : s[j] = x /\ \A m \in 1..(j - 1) : s[m] # x
  IN  [m \in 1..(Len(s) - 1) |-> IF m < j THEN s[m] ELSE s[m + 1]]

\* removeNodeById(nodeId).  For the first inverse reference, "src =
\* ref.target; src.removeReferenceToNode(nd)" raises: no class of nodes.py
\* defines removeReferenceToNode, and ref.target is a NodeId, a string or None.
RemoveNodeById(nodeId) ==
  /\ pc = "idle"
  /\ logged' = {}
  /\ passes' = passes
  /\ last' = "removeNodeById"
  /\ LET nd == getNodeByIDString(nodes, nodeId)
     IN  IF nd = None
         THEN /\ raised' = "none"
              /\ UNCHANGED nodes
         ELSE /\ nodes' = ListRemove(nodes, nd)
              /\ raised' = IF nd.inverseReferences # <<>> THEN "AttributeError"
                           ELSE "none"
  /\ UNCHANGED <<nodeids, aliases, namespaceIdentifiers, pc, orig_namespaces,
                 nsMapping>>

-----------------------------------------------------------------------------
(* sanitize: nodeset.py 255-265, nodes.py 98-99. *)

PyTrue == [t |-> "bool", v |-> TRUE]
PyFalse == [t |-> "bool", v |-> FALSE]

\* Node.sanitize: "pass", the call returns None; no class of nodes.py
\* overrides it.
nodeSanitize(n) == None

\* "for n in self.nodes: if n.sanitize() == False: remove.append(n)"
collectFailing(s) == SelectSeq(s, LAMBDA n : nodeSanitize(n) = PyFalse)

\* A sanitize that keeps the nodes whose hook returned True.
sanitizedNodesKeepingValid(s, remove) ==
  SelectSeq(s, LAMBDA n : nodeSanitize(n) = PyTrue)

\* self.nodes after sanitize: the collected nodes are counted in a warning,
\* "Not actually removing nodes".
sanitizedNodes(s, remove) == s

\* sanitize()
Sanitize ==
  /\ pc = "idle"
  /\ LET remove == collectFailing(nodes)
     IN  /\ nodes' = sanitizedNodes(nodes, remove)
         /\ logged' = (IF Len(remove) # 0
                       THEN {"nodes will be removed because they failed sanitation"}
                       ELSE {})
                      \cup {"Not actually removing nodes"}
  /\ raised' = "none"
  /\ passes' = passes
  /\ last' = "sanitize"
  /\ UNCHANGED <<nodeids, aliases, namespaceIdentifiers, pc, orig_namespaces,
                 nsMapping>>

-----------------------------------------------------------------------------
(* reorderNodesMinDependencies: nodeset.py 283-333. *)

\* isinstance(v, Node), for a value a Reference field holds.
IsNodeObject(v) == v.t \notin {"NodeId", "str", "None"}

\* v(...) can be called: v is not a NodeId, a string or None.
IsCallable(v) == v.t \notin {"NodeId", "str", "None"}

\* getSubTypesOf2(node): node.references of None raises, and so does
\* "ref.target()" for the first reference of the node.
getSubTypesOf2Raises(node) ==
  IF node = None THEN "AttributeError"
  ELSE IF \E j \in DOMAIN node.references : ~IsCallable(node.references[j].target)
  THEN "TypeError"
  ELSE "none"

\* Without a reference to call, "re = [node]" is returned.
getSubTypesOf2(node) == <<node>>

\* Lines 304-309 raise at "ref.referenceType()".
inDegreeRaises(s, printedExternally) ==
  \E u \in Range(s) \ printedExternally :
     \E j \in DOMAIN u.references :
        /\ IsNodeObject(u.references[j].target)
        /\ ~IsCallable(u.references[j].referenceType)

\* The longest node.references of the nodes of s.
MaxRefsOf(s) ==
  IF s = <<>> THEN 0
  ELSE CHOOSE m \in {Len(n.references) : n \in Range(s)} :
         \A n \in Range(s) : Len(n.references) <= m

\* in_degree after lines 303-309: one more for every reference that passes
\* the tests of lines 305-308 and targets the node.
inDegree(s, printedExternally) ==
  [n \in Range(s) |->
     Cardinality({<<u, j>> \in Range(s) \X (1..MaxRefsOf(s)) :
        /\ u \notin printedExternally
        /\ j \in DOMAIN u.references
        /\ IsNodeObject(u.references[j].target)
        /\ IsCallable(u.references[j].referenceType)
        /\ u.references[j].isForward
        /\ u.references[j].target = n})]

RECURSIVE seedQueue(_, _, _)
\* "for u in in_degree: if in_degree[u] == 0: Q.appendleft(u)", the dict
\* iterated in `order`; the left end of the deque is the head of Q.
seedQueue(order, deg, Q) ==
  IF order = <<>> THEN Q
  ELSE seedQueue(Tail(order), deg,
                 IF deg[Head(order)] = 0 THEN <<Head(order)>> \o Q ELSE Q)

\* Line 324 reaches "ref.isForward()", which raises: a bool is not callable.
loopRaises(u, relevant_types) ==
  \E j \in DOMAIN u.references :
     /\ IsNodeObject(u.references[j].target)
     /\ u.references[j].referenceType \in Range(relevant_types)
     /\ u.references[j].isForward \in BOOLEAN

RECURSIVE kahnLoop(_, _, _, _)
\* "while Q: u = Q.pop(); L.append(u); ...": no in-degree is decremented,
\* since every reference that passes line 323 and the first test of line 324
\* raises.  `count` counts the passes of the loop.
kahnLoop(Q, L, relevant_types, count) ==
  IF Q = <<>> THEN [raised |-> "none", L |-> L, passes |-> count]
  ELSE LET u == Q[Len(Q)]
       IN  IF loopRaises(u, relevant_types)
           THEN [raised |-> "TypeError", L |-> Append(L, u), passes |-> count + 1]
           ELSE kahnLoop(SubSeq(Q, 1, Len(Q) - 1), Append(L, u), relevant_types,
                         count + 1)

\* Lines 328-332: the new self.nodes.
acceptOrderDropping(L, s, printedExternally) ==
  SelectSeq(L, LAMBDA x : x \notin printedExternally)

acceptOrder(L, s, printedExternally) ==
  IF Len(L) = Len(s) THEN L
  ELSE L \o SelectSeq(s, LAMBDA x : x \notin Range(L))

\* The orders in which a dict keyed by the Node objects of s may be iterated:
\* Node defines no __hash__, the order follows the objects' addresses.
DictOrders(s) ==
  {p \in [1..Len(s) -> Range(s)] : \A a, b \in 1..Len(s) : p[a] = p[b] => a = b}

\* reorderNodesMinDependencies(printedExternally), with the dict in_degree
\* iterated in `order`.
ReorderNodesMinDependencies(printedExternally, order) ==
  /\ pc = "idle"
  /\ last' = "reorderNodesMinDependencies"
  /\ LET hier == getNodeByBrowseName(nodes, "HierarchicalReferences")
         comp == getNodeByBrowseName(nodes, "HasComponent")
         exc == IF getSubTypesOf2Raises(hier) # "none" THEN getSubTypesOf2Raises(hier)
                ELSE IF getSubTypesOf2Raises(comp) # "none"
                THEN getSubTypesOf2Raises(comp)
                ELSE IF inDegreeRaises(nodes, printedExternally) THEN "TypeError"
                ELSE "none"
     IN  IF exc # "none"
         THEN /\ raised' = exc
              /\ logged' = {}
              /\ passes' = 0
              /\ UNCHANGED nodes
         ELSE   LET relevant_types == getSubTypesOf2(hier) \o getSubTypesOf2(comp)
                    Q == seedQueue(order, inDegree(nodes, printedExternally), <<>>)
                    r == kahnLoop(Q, <<>>, relevant_types, 0)
                IN  /\ raised' = r.raised
                    /\ passes' = r.passes
                    /\ IF r.raised # "none"
                       THEN logged' = {} /\ UNCHANGED nodes
                       ELSE /\ nodes' = acceptOrder(r.L, nodes, printedExternally)
                            /\ logged' = IF Len(r.L) = Len(nodes) THEN {}
                                         ELSE {"Node graph is circular"}
  /\ UNCHANGED <<nodeids, aliases, namespaceIdentifiers, pc, orig_namespaces,
                 nsMapping>>

-----------------------------------------------------------------------------
(* The inputs. *)

RECURSIVE SeqsUpTo(_, _)
\* The sequences over S of length at most n.
SeqsUpTo(S, n) ==
  IF n = 0 THEN {<<>>}
  ELSE LET shorter == SeqsUpTo(S, n - 1)
       IN  shorter \cup {Append(q, x) : q \in shorter, x \in S}

Uris == {"urn:a", "urn:b"}
RootCounts == {0, 1, 2}

NodeElement(tagName, idAttr, browseName, refs) ==
  [tagName |-> tagName, idAttr |-> idAttr, browseName |-> browseName, refs |-> refs]

RefElement(text, refType, isForward) ==
  [text |-> text, refType |-> refType, isForward |-> isForward]

AliasElement(tagName, entries) == [tagName |-> tagName, entries |-> entries]

AliasEntry(alias, value) == [alias |-> alias, value |-> value]

\* Documents of several namespaces: nodes "ns=<n>;i=<k>" without references,
\* a text node between the elements, an element of no recognized type.
IdValues == {5, 7}

NsElements ==
  {NodeElement("UAObject", TId(TRUE, n, k), "X", <<>>) :
     n \in 0..MaxUris, k \in IdValues}
  \cup {NodeElement("UAObject", TId(FALSE, 0, 5), "X", <<>>)}
  \cup {[tagName |-> "#text"], NodeElement("UAView", TId(FALSE, 0, 5), "X", <<>>)}

NsUriLists == SeqsUpTo(Uris, MaxUris)

\* Documents with <Aliases> and nodes whose references use them.
AliasNames == {TName("Boolean"), TName("HasComponent")}
AliasValues == {TId(TRUE, 0, 1), TId(FALSE, 0, 47)}

AliasNodeElements ==
  {NodeElement("UAObject", TId(FALSE, 0, 5), "X", <<RefElement(text, refType, NoAttr)>>) :
     text \in {TName("Boolean"), TId(FALSE, 0, 1)},
     refType \in {TName("HasComponent"), TId(FALSE, 0, 47)}}

\* An element of a recognized node type without NodeId, NodeID or nodeid.
NoIdElements == {NodeElement("UAObject", NoAttr, "X", <<>>)}

AliasElements ==
  {AliasElement("Aliases", es) :
     es \in SeqsUpTo({AliasEntry(a, v) : a \in AliasNames, v \in AliasValues},
                     MaxAliasEntries) \ {<<>>}}
  \cup {AliasElement("UAAliases", <<AliasEntry(TName("Boolean"), TId(TRUE, 0, 1))>>)}
  \cup AliasNodeElements
  \cup NoIdElements

\* Documents of one namespace whose nodes reference each other: the two
\* reference types reorderNodesMinDependencies looks up by browse name (the
\* second also in a variant with a forward reference), and two objects X
\* (i=5) and Y (i=7): X --HasComponent--> Y, and Y either with the inverse
\* reference to X or with Y --HasComponent--> X.
HasComponentRef(k, isForward) ==
  RefElement(TId(FALSE, 0, k), TName("HasComponent"), isForward)

GraphElements ==
  {NodeElement("UAReferenceType", TId(FALSE, 0, 33), "HierarchicalReferences", <<>>),
   NodeElement("UAReferenceType", TId(FALSE, 0, 47), "HasComponent", <<>>),
   NodeElement("UAReferenceType", TId(FALSE, 0, 47), "HasComponent",
               <<RefElement(TId(FALSE, 0, 5), TName("HasSubtype"), NoAttr)>>),
   NodeElement("UAObject", TId(FALSE, 0, 5), "X", <<HasComponentRef(7, NoAttr)>>),
   NodeElement("UAObject", TId(FALSE, 0, 7), "Y", <<HasComponentRef(5, NoAttr)>>),
   NodeElement("UAObject", TId(FALSE, 0, 7), "Y", <<HasComponentRef(5, TName("false"))>>)}

GraphUriLists == {<<>>}

\* Every call the program can make next, on the inputs of one alphabet.
NextOver(uriSet, uriLists, elems, maxNodes) ==
  \/ \E nsURL \in uriSet : AddNamespace(nsURL)
  \/ \E roots \in RootCounts, uris \in uriLists : AddNodeSet(roots, uris)
  \/ \E elem \in elems : CreateNode(elem, maxNodes)
  \/ FinishAddNodeSet
  \/ \E nodeId \in {Str(n.id) : n \in Range(nodes)} \cup {TId(FALSE, 0, 5)} :
       RemoveNodeById(nodeId)
  \/ \E order \in DictOrders(nodes) :
       \E printedExternally \in {pe \in SUBSET Range(nodes) :
                                    Cardinality(pe) <= MaxEmitted} :
          ReorderNodesMinDependencies(printedExternally, order)
  \/ Sanitize

Next == NextOver(Uris, NsUriLists, NsElements, MaxNodes)

Spec == Init /\ [][Next]_vars

NextGraph == NextOver({StdUri}, GraphUriLists, GraphElements, MaxGraphNodes)

SpecGraph == Init /\ [][NextGraph]_vars

NextAlias == NextOver({StdUri}, GraphUriLists, AliasElements, MaxNodes)

SpecAlias == Init /\ [][NextAlias]_vars

-----------------------------------------------------------------------------
(* Claims about the registry and the namespaces (Spec). *)

\* The canonical identifier createNode registers the node of elem under:
\* str() of its id after replaceAliases and the exchange of the namespace.
CanonicalId(elem) == Str(createdNode(elem, aliases, nsMapping, 0).id)

\* elem is an element of a recognized node type whose identifier parses and
\* whose namespace index the document declares.
IsRegistrable(elem) ==
  /\ ~IsSkipped(elem)
  /\ NdType(elem.tagName) # "aliases"
  /\ ~parseXMLRaises(elem)
  /\ ~replaceAliasesRaises(aliases, parseXML(elem, 0))
  /\ replaceAliases(aliases, parseXML(elem, 0)).id.ns \in DOMAIN nsMapping

\* C1: in every reachable state, no two nodes of NodeSet.nodes have the same
\* canonical identifier string.
C1_UniqueCanonicalIds ==
  \A a, b \in DOMAIN nodes : a # b => Str(nodes[a].id) # Str(nodes[b].id)

\* C2: a createNode call for an element whose canonical identifier is
\* already a key of the registry raises the duplicate-id error and leaves
\* nodes and nodeids as they were.
C2_DuplicateRejected ==
  [][\A elem \in NsElements :
       (/\ CreateNode(elem, MaxNodes)
        /\ IsRegistrable(elem)
        /\ CanonicalId(elem) \in DOMAIN nodeids)
       => (raised' = "duplicate ID" /\ nodes' = nodes /\ nodeids' = nodeids)]_vars

\* C3: between calls, nodeids and nodes agree: every node of nodes is the
\* value of nodeids under its canonical identifier string, and every value
\* of nodeids is a node of nodes.
C3_IndexAgreesWithList ==
  pc = "idle" =>
    /\ \A j \in DOMAIN nodes :
         /\ Str(nodes[j].id) \in DOMAIN nodeids
         /\ nodeids[Str(nodes[j].id)] = nodes[j]
    /\ \A k \in DOMAIN nodeids : nodeids[k] \in Range(nodes)

\* The namespace index the identifier attribute of elem gives.
LocalNamespaceIndex(elem) == NodeIdOf(elem.idAttr).ns

\* C4: a node registered by createNode has as namespace index the position,
\* in the NodeSet's namespace table, of the URI the document declares at the
\* node's local namespace index.
C4_NamespaceIndexRemapped ==
  [][\A elem \in NsElements :
       (Len(nodes') = Len(nodes) + 1 /\ CreateNode(elem, MaxNodes))
       => LET node == nodes'[Len(nodes')]
          IN  /\ node.id.ns + 1 \in DOMAIN namespaceIdentifiers
              /\ namespaceIdentifiers[node.id.ns + 1]
                   = orig_namespaces[LocalNamespaceIndex(elem) + 1]
              /\ node.id.i = NodeIdOf(elem.idAttr).i]_vars

\* The scenario of C4: "urn:a" declared at index 1 by a first document and
\* "urn:b" at index 1 by a second; ns=1;i=5 of the first is registered as
\* ns=1;i=5 and ns=1;i=7 of the second as ns=2;i=7.
C4_Witness ==
  /\ pc = "ingest"
  /\ last = "createNode"
  /\ raised = "none"
  /\ namespaceIdentifiers = <<StdUri, "urn:a", "urn:b">>
  /\ orig_namespaces = <<StdUri, "urn:b">>
  /\ Len(nodes) = 2
  /\ nodes[1].id = MkNodeId(1, 5)
  /\ nodes[2].id = MkNodeId(2, 7)

IsPrefix(s, t) == Len(s) <= Len(t) /\ \A j \in DOMAIN s : t[j] = s[j]

NoDuplicates(s) == \A a, b \in DOMAIN s : s[a] = s[b] => a = b

\* C5: the namespace table only grows by appending: index 0 is the standard
\* namespace, a URI keeps its index, no URI is at two positions, and a
\* document whose URIs are all in the table gets the same mapping again.
C5_NamespaceTableStable ==
  [][/\ IsPrefix(namespaceIdentifiers, namespaceIdentifiers')
     /\ namespaceIdentifiers'[1] = StdUri
     /\ NoDuplicates(namespaceIdentifiers')
     /\ \/ namespaceIdentifiers' = namespaceIdentifiers
        \/ \A uris \in NsUriLists :
             Range(uris) \subseteq Range(namespaceIdentifiers)
             => createNamespaceMapping(namespaceIdentifiers', XmlNamespaces(uris))
                  = createNamespaceMapping(namespaceIdentifiers, XmlNamespaces(uris))]_vars

\* A second document is being ingested whose only URI the table has already,
\* behind the URI of another document.
C5_Witness ==
  /\ pc = "ingest"
  /\ last = "addNodeSet"
  /\ namespaceIdentifiers = <<StdUri, "urn:a", "urn:b">>
  /\ orig_namespaces = <<StdUri, "urn:b">>
  /\ nsMapping = (0 :> 0 @@ 1 :> 2)
  /\ nodes # <<>>

-----------------------------------------------------------------------------
(* Claims about aliases (SpecAlias). *)

\* The <Aliases> element defines an alias the table binds to another value.
RedefinesAlias(al, elem) ==
  \E j \in DOMAIN elem.entries :
     /\ elem.entries[j].alias \in DOMAIN al
     /\ al[elem.entries[j].alias] # elem.entries[j].value

\* C6: a bound alias keeps its value under every later alias definition; a
\* definition with another value is reported and the first value kept, a
\* definition with the same value changes nothing.
C6_AliasFirstDefinitionWins ==
  [][/\ \A a \in DOMAIN aliases : a \in DOMAIN aliases' /\ aliases'[a] = aliases[a]
     /\ \A elem \in AliasElements :
          (CreateNode(elem, MaxNodes) /\ elem.tagName = "Aliases")
          => /\ RedefinesAlias(aliases, elem)
                  => "Alias definitions differ" \in logged'
             /\ (\A j \in DOMAIN elem.entries :
                    elem.entries[j].alias \in DOMAIN aliases
                    /\ aliases[elem.entries[j].alias] = elem.entries[j].value)
                  => (aliases' = aliases /\ logged' = {})]_vars

\* An alias bound to "ns=0;i=1" has been defined again as "i=47": the
\* conflict is reported and the table still holds "ns=0;i=1".
C6_Witness ==
  /\ last = "createNode"
  /\ "Alias definitions differ" \in logged
  /\ TName("Boolean") \in DOMAIN aliases
  /\ aliases[TName("Boolean")] = TId(TRUE, 0, 1)

\* The identifier a string of a document stands for: the value bound to it
\* when it is an alias, the string itself otherwise.
Resolve(al, text) == IF text \in DOMAIN al THEN NodeIdOf(al[text]) ELSE NodeIdOf(text)

\* C10: a reference whose target text is a defined alias (or an identifier)
\* is registered with the identifier bound to the alias as its target field,
\* and with the ReferenceType attribute as its referenceType field.
C10_AliasTargetResolved ==
  [][\A elem \in AliasNodeElements :
       (/\ CreateNode(elem, MaxNodes)
        /\ raised' # "duplicate ID"
        /\ \A j \in DOMAIN elem.refs :
             /\ elem.refs[j].text \in DOMAIN aliases \/ NodeIdParses(elem.refs[j].text)
             /\ elem.refs[j].refType \in DOMAIN aliases
                  \/ NodeIdParses(elem.refs[j].refType))
       => /\ raised' = "none"
          /\ Len(nodes') = Len(nodes) + 1
          /\ LET node == nodes'[Len(nodes')]
             IN  \A j \in DOMAIN elem.refs :
                    /\ node.references[j].target = Resolve(aliases, elem.refs[j].text)
                    /\ node.references[j].referenceType
                         = Resolve(aliases, elem.refs[j].refType)]_vars

-----------------------------------------------------------------------------
(* Claims about references between nodes (SpecGraph). *)

\* The field value v of a reference names the node n by its identifier.
DesignatesNode(v, n) == Str(v) = Str(n.id)

\* The field value v of a reference names the reference type n, by its
\* identifier or by its browse name.
DesignatesType(v, n) == Str(v) = Str(n.id) \/ Str(v) = TName(n.browseName)

\* The reference r of a document leads to the node b with a type of `types`:
\* one of its two fields names b, the other a node of `types`.
LeadsTo(r, b, types) ==
  \/ DesignatesNode(r.target, b) /\ \E ty \in types : DesignatesType(r.referenceType, ty)
  \/ DesignatesNode(r.referenceType, b) /\ \E ty \in types : DesignatesType(r.target, ty)

\* The reference r leads to b with the type HasSubtype.
IsSubtypeEdge(r, b) ==
  \/ DesignatesNode(r.target, b) /\ Str(r.referenceType) = TName("HasSubtype")
  \/ DesignatesNode(r.referenceType, b) /\ Str(r.target) = TName("HasSubtype")

RECURSIVE SubtypeClosure(_, _)
\* The nodes of `types` and their subtypes, direct and indirect.
SubtypeClosure(s, types) ==
  LET more == types \cup
                {b \in Range(s) : \E a \in types : \E j \in DOMAIN a.references :
                                     IsSubtypeEdge(a.references[j], b)}
  IN  IF more = types THEN types ELSE SubtypeClosure(s, more)

\* HierarchicalReferences, HasComponent and their subtypes among the nodes of s.
RelevantTypes(s) ==
  SubtypeClosure(s, {n \in Range(s) :
                       n.browseName \in {"HierarchicalReferences", "HasComponent"}})

\* a -> b is a forward edge of a relevant type.
RelevantEdge(s, a, b) ==
  \E j \in DOMAIN a.references : LeadsTo(a.references[j], b, RelevantTypes(s))

RECURSIVE ReachesWithin(_, _, _, _)
\* b is reached from a over at least one and at most n relevant edges.
ReachesWithin(s, a, b, n) ==
  /\ n > 0
  /\ \/ RelevantEdge(s, a, b)
     \/ \E c \in Range(s) : RelevantEdge(s, a, c) /\ ReachesWithin(s, c, b, n - 1)

\* No node reaches itself over relevant edges.
Acyclic(s) == \A a \in Range(s) : ~ReachesWithin(s, a, a, Len(s))

Before(s, a, b) == \E j, k \in DOMAIN s : j < k /\ s[j] = a /\ s[k] = b

EmittedSets == {pe \in SUBSET Range(nodes) : Cardinality(pe) <= MaxEmitted}

\* C7: when reorderNodesMinDependencies accepts its result for an acyclic
\* graph, every forward edge A -> B of a relevant type whose source A is not
\* in alreadyEmitted has A before B in the new node list.
C7_TopologicalOrder ==
  [][\A printedExternally \in EmittedSets : \A order \in DictOrders(nodes) :
       (/\ ReorderNodesMinDependencies(printedExternally, order)
        /\ raised' = "none"
        /\ logged' = {}
        /\ Acyclic(nodes))
       => \A a, b \in Range(nodes) :
            (a # b /\ a \notin printedExternally /\ RelevantEdge(nodes, a, b))
            => Before(nodes', a, b)]_vars

Count(s, x) == Cardinality({j \in DOMAIN s : s[j] = x})

IsPermutation(s, t) ==
  /\ Len(s) = Len(t)
  /\ \A x \in Range(s) \cup Range(t) : Count(s, x) = Count(t, x)

\* C8: reorderNodesMinDependencies ends after at most one pass of its loop
\* per node, for every graph and every alreadyEmitted set, and the node list
\* after it is a permutation of the node list before it.
C8_ReorderIsPermutation ==
  [][last' = "reorderNodesMinDependencies"
       => /\ IsPermutation(nodes', nodes)
          /\ passes' <= Len(nodes)]_vars

\* reorderNodesMinDependencies has returned for the two reference types and
\* the cycle X --HasComponent--> Y --HasComponent--> X.
C8_Witness ==
  /\ last = "reorderNodesMinDependencies"
  /\ raised = "none"
  /\ Len(nodes) = 4
  /\ passes = 4
  /\ \E x, y \in Range(nodes) :
       /\ x.browseName = "X" /\ y.browseName = "Y"
       /\ RelevantEdge(nodes, x, y) /\ RelevantEdge(nodes, y, x)

\* The node N records an inverse reference whose referencing node is M.
RecordsInverseFrom(N, M) ==
  \E j \in DOMAIN N.inverseReferences :
     \/ DesignatesNode(N.inverseReferences[j].target, M)
     \/ DesignatesNode(N.inverseReferences[j].referenceType, M)

\* A reference of M names the node N.
RefersTo(M, N) ==
  \E j \in DOMAIN M.references :
     \/ DesignatesNode(M.references[j].target, N)
     \/ DesignatesNode(M.references[j].referenceType, N)

\* C9: after removeNodeById(N) for a node N that records an inverse
\* reference from the node M, N is not in the node list, M still is, and no
\* reference of M names N.
C9_RemovalPrunesReference ==
  [][\A N, M \in Range(nodes) :
       (/\ RemoveNodeById(Str(N.id))
        /\ N = getNodeByIDString(nodes, Str(N.id))
        /\ M # N
        /\ RecordsInverseFrom(N, M))
       => /\ N \notin Range(nodes')
          /\ \E M2 \in Range(nodes') :
               /\ Str(M2.id) = Str(M.id)
               /\ ~RefersTo(M2, N)]_vars

-----------------------------------------------------------------------------
(* Claims about elements without an identifier (SpecAlias). *)

\* C11: createNode for an element of a recognized node type that has none of
\* the attributes NodeId, NodeID, nodeid raises the error "XMLElement has no
\* id" and leaves nodes and nodeids as they were; no node of nodes has the
\* default identifier NodeId().
C11_MissingIdRejected ==
  [][/\ \A elem \in NoIdElements :
          CreateNode(elem, MaxNodes)
          => (raised' = "XMLElement has no id" /\ nodes' = nodes /\ nodeids' = nodeids)
     /\ \A j \in DOMAIN nodes' : nodes'[j].id # DefaultNodeId]_vars

-----------------------------------------------------------------------------
(* Claims about sanitize (Spec). *)

\* C12: sanitize() leaves the node list (contents and order), the identifier
\* index, the alias table and the namespace table as they were, and raises
\* nothing.
C12_SanitizeChangesNothing ==
  [][last' = "sanitize"
       => /\ nodes' = nodes
          /\ nodeids' = nodeids
          /\ aliases' = aliases
          /\ namespaceIdentifiers' = namespaceIdentifiers
          /\ raised' = "none"]_vars

\* sanitize() has returned for a NodeSet of two nodes of two namespaces.
C12_Witness ==
  /\ last = "sanitize"
  /\ "Not actually removing nodes" \in logged
  /\ Len(nodes) = 2
  /\ Len(namespaceIdentifiers) > 1
  /\ DOMAIN nodeids # {}

-----------------------------------------------------------------------------
(* Claims about cycles of references (SpecGraph). *)

\* The nodes of s that lie on a cycle of relevant edges.
OnCycle(s) == {a \in Range(s) : ReachesWithin(s, a, a, Len(s))}

\* The two reference types reorderNodesMinDependencies looks up are nodes of
\* s, and neither has a forward reference.
HasPlainRelevantTypes(s) ==
  \A name \in {"HierarchicalReferences", "HasComponent"} :
     /\ getNodeByBrowseName(s, name) # None
     /\ getNodeByBrowseName(s, name).references = <<>>

\* C13: when the relevant edges contain a cycle, reorderNodesMinDependencies
\* (called with nothing emitted yet) raises nothing, reports the error "Node graph is circular", and the nodes
\* of the cycle come behind every other node in the new node list, in the
\* relative order they had before the call.
C13_CycleReported ==
  [][(/\ last' = "reorderNodesMinDependencies"
      /\ HasPlainRelevantTypes(nodes)
      /\ OnCycle(nodes) # {}
      /\ \E printedExternally \in {{}} : \E order \in DictOrders(nodes) :
            ReorderNodesMinDependencies(printedExternally, order))
     => /\ raised' = "none"
        /\ "Node graph is circular" \in logged'
        /\ \A a \in OnCycle(nodes), b \in Range(nodes) :
             /\ b \notin OnCycle(nodes) => Before(nodes', b, a)
             /\ (b \in OnCycle(nodes) /\ Before(nodes, a, b)) => Before(nodes', a, b)]_vars

====
